---- MODULE Spec2Model ----
(***************************************************************************)
(* Model of the deck search endpoint of the MDDecks worker                 *)
(* (worker/src/handlers/search.js): the query compiler buildSearchQuery    *)
(* and the request handler handleSearchRequest.                            *)
(*                                                                         *)
(* Text is modelled as follows.                                            *)
(*  - A request parameter value is a sequence of one-character strings, so *)
(*    that parseInt, split, trim and Date.parse are computed character by  *)
(*    character.                                                           *)
(*  - A SQL statement is a sequence of pieces whose concatenation is the   *)
(*    statement text; every placeholder "?" is a piece of its own.         *)
(*  - A JavaScript value that is bound to a statement is a record          *)
(*    [t, n, s]: a number (t = "num"), NaN (t = "nan") or a string         *)
(*    (t = "str").                                                         *)
(***************************************************************************)
EXTENDS Integers, Sequences, FiniteSets, TLC

VARIABLES
  pc,         \* position of the handler: "idle", "awaiting" (the await of batch), "done"
  request,    \* searchParams of the request the handler is called with: <<key, value>> pairs
  query,      \* the data statement compiled for the request ([sql, params]) or NoQuery
  countQuery, \* the count statement compiled for the request or NoQuery
  queryOptions, \* the options object passed to the data compilation
  prepared,   \* statement texts passed to env.DECK_DB.prepare, in call order
  batches,    \* arguments of the calls of env.DECK_DB.batch, in call order
  responses,  \* responses returned by the handler
  log         \* arguments of console.error, in call order

vars == <<pc, request, query, countQuery, queryOptions, prepared, batches, responses, log>>

-----------------------------------------------------------------------------
(* JavaScript values *)

Num(n) == [t |-> "num", n |-> n, s |-> <<>>]
NaN == [t |-> "nan", n |-> 0, s |-> <<>>]
Str(s) == [t |-> "str", n |-> 0, s |-> s]
IsNaN(v) == v.t = "nan"

\* params.get(k) of a key that is absent
Null == <<"<null>">>

-----------------------------------------------------------------------------
(* URLSearchParams: an ordered list of <<key, value>> pairs *)

RECURSIVE GetAll(_, _)
GetAll(params, k) ==
  IF params = <<>> THEN <<>>
  ELSE IF Head(params)[1] = k THEN <<Head(params)[2]>> \o GetAll(Tail(params), k)
  ELSE GetAll(Tail(params), k)

Has(params, k) == \E i \in 1..Len(params) : params[i][1] = k

Get(params, k) == IF Has(params, k) THEN GetAll(params, k)[1] ELSE Null

-----------------------------------------------------------------------------
(* parseInt(s, 10) *)

Whitespace == {" "}
DigitChars == <<"0", "1", "2", "3", "4", "5", "6", "7", "8", "9">>
IsDigit(c) == \E d \in 1..10 : DigitChars[d] = c
DigitVal(c) == (CHOOSE d \in 1..10 : DigitChars[d] = c) - 1

RECURSIVE TrimStart(_)
TrimStart(s) == IF s # <<>> /\ Head(s) \in Whitespace THEN TrimStart(Tail(s)) ELSE s

RECURSIVE TrimEnd(_)
TrimEnd(s) ==
  IF s # <<>> /\ s[Len(s)] \in Whitespace THEN TrimEnd(SubSeq(s, 1, Len(s) - 1)) ELSE s

Trim(s) == TrimEnd(TrimStart(s))

\* the value of the longest prefix of digits of s, given the digits read so far
RECURSIVE DigitsValue(_, _)
DigitsValue(s, acc) ==
  IF s # <<>> /\ IsDigit(Head(s)) THEN DigitsValue(Tail(s), acc * 10 + DigitVal(Head(s)))
  ELSE acc

ParseInt(s) ==
  LET t == TrimStart(s)
      neg == t # <<>> /\ Head(t) = "-"
      u == IF t # <<>> /\ Head(t) \in {"-", "+"} THEN Tail(t) ELSE t
  IN IF u = <<>> \/ ~IsDigit(Head(u)) THEN NaN
     ELSE Num(IF neg THEN 0 - DigitsValue(u, 0) ELSE DigitsValue(u, 0))

-----------------------------------------------------------------------------
(* Date.parse(s) for date-only strings YYYY-MM-DD; Math.floor(ms / 1000) *)

IsLeap(y) == (y % 4 = 0 /\ y % 100 # 0) \/ y % 400 = 0

DaysInMonth(y, m) ==
  IF m = 2 THEN (IF IsLeap(y) THEN 29 ELSE 28)
  ELSE IF m \in {4, 6, 9, 11} THEN 30 ELSE 31

\* days from 1970-01-01 to y-m-d in the proleptic Gregorian calendar
DaysFromCivil(y, m, d) ==
  LET yy == IF m <= 2 THEN y - 1 ELSE y
      era == yy \div 400
      yoe == yy - era * 400
      mp == (m + 9) % 12
      doy == (153 * mp + 2) \div 5 + d - 1
      doe == yoe * 365 + yoe \div 4 - yoe \div 100 + doy
  IN era * 146097 + doe - 719468

\* A well-formed calendar date gives the milliseconds of its UTC midnight;
\* the other strings of the model (no date at all) give NaN.
DateParse(s) ==
  LET digitAt(i) == IsDigit(s[i])
      val(i, j) == DigitsValue(SubSeq(s, i, j), 0)
      shape == /\ Len(s) = 10
               /\ \A i \in {1, 2, 3, 4, 6, 7, 9, 10} : digitAt(i)
               /\ s[5] = "-" /\ s[8] = "-"
  IN IF ~shape THEN NaN
     ELSE LET y == val(1, 4)
              m == val(6, 7)
              d == val(9, 10)
          IN IF m \in 1..12 /\ d \in 1..DaysInMonth(y, m)
             THEN Num(DaysFromCivil(y, m, d) * 86400000)
             ELSE NaN

\* Math.floor(v / 1000)
FloorDiv1000(v) == IF IsNaN(v) THEN NaN ELSE Num(v.n \div 1000)

-----------------------------------------------------------------------------
(* buildSearchQuery: the accumulators joins (a Set, kept in insertion order), *)
(* conditions and bindings, as one record                                  *)

EmptyAcc == [joins |-> <<>>, conditions |-> <<>>, bindings |-> <<>>]

\* Set.prototype.add on the insertion-ordered list of the set's members
SetAdd(set, x) == IF \E i \in 1..Len(set) : set[i] = x THEN set ELSE Append(set, x)

RECURSIVE AddAll(_, _)
AddAll(set, xs) == IF xs = <<>> THEN set ELSE AddAll(SetAdd(set, Head(xs)), Tail(xs))

\* `%${value}%`
Like(value) == Str(<<"%">> \o value \o <<"%">>)

\* the text of a sequence of characters
RECURSIVE StrOf(_)
StrOf(chars) == IF chars = <<>> THEN "" ELSE Head(chars) \o StrOf(Tail(chars))

Letters ==
  {"a", "b", "c", "d", "e", "f", "g", "h", "i", "j", "k", "l", "m",
   "n", "o", "p", "q", "r", "s", "t", "u", "v", "w", "x", "y", "z",
   "A", "B", "C", "D", "E", "F", "G", "H", "I", "J", "K", "L", "M",
   "N", "O", "P", "Q", "R", "S", "T", "U", "V", "W", "X", "Y", "Z"}

\* paramName.replace(/[^a-zA-Z]/g, '')
RECURSIVE StripNonLetters(_)
StripNonLetters(chars) ==
  IF chars = <<>> THEN <<>>
  ELSE IF Head(chars) \in Letters THEN <<Head(chars)>> \o StripNonLetters(Tail(chars))
  ELSE StripNonLetters(Tail(chars))

\* an alias that leaves the occurrence index out
FilterAliasWithoutIndex(paramName, i) == StrOf(StripNonLetters(paramName))

\* `${paramName.replace(/[^a-zA-Z]/g, '')}${i}`
FilterAlias(paramName, i) == StrOf(StripNonLetters(paramName)) \o ToString(i)

\* `card${i}`
CardAlias(i) == "card" \o ToString(i)

\* array.join(sep) of arrays of pieces
RECURSIVE JoinPieces(_, _)
JoinPieces(items, sep) ==
  IF items = <<>> THEN <<>>
  ELSE IF Len(items) = 1 THEN items[1]
  ELSE items[1] \o <<sep>> \o JoinPieces(Tail(items), sep)

\* a push of the bound values at the front of bindings instead of at the end
EmitValuesInFront(acc, joinFragments, condition, values) ==
  [joins |-> AddAll(acc.joins, joinFragments),
   conditions |-> Append(acc.conditions, condition),
   bindings |-> values \o acc.bindings]

\* one joinLogic call: adds its join fragments, its condition and its bound value
Emit(acc, joinFragments, condition, values) ==
  [joins |-> AddAll(acc.joins, joinFragments),
   conditions |-> Append(acc.conditions, condition),
   bindings |-> acc.bindings \o values]

DeckCardsJoin(alias) ==
  "JOIN DeckCards AS DC_" \o alias \o " ON D.deck_id = DC_" \o alias \o ".deck_id"

RaceJoinLogic(raceName, alias, acc) ==
  Emit(acc,
       <<DeckCardsJoin(alias),
         "JOIN CardToRace AS CTR_" \o alias \o " ON DC_" \o alias
           \o ".card_id = CTR_" \o alias \o ".card_id",
         "JOIN Races AS R_" \o alias \o " ON CTR_" \o alias
           \o ".race_code = R_" \o alias \o ".race_code">>,
       <<"R_" \o alias \o ".race_name LIKE ", "?">>,
       <<Like(raceName)>>)

AttributeJoinLogic(attributeName, alias, acc) ==
  Emit(acc,
       <<DeckCardsJoin(alias),
         "JOIN CardToAttribute AS CTA_" \o alias \o " ON DC_" \o alias
           \o ".card_id = CTA_" \o alias \o ".card_id",
         "JOIN Attributes AS A_" \o alias \o " ON CTA_" \o alias
           \o ".attribute_code = A_" \o alias \o ".attribute_code">>,
       <<"A_" \o alias \o ".attribute_name LIKE ", "?">>,
       <<Like(attributeName)>>)

TypeJoinLogic(typeName, alias, acc) ==
  Emit(acc,
       <<DeckCardsJoin(alias),
         "JOIN CardToType AS CTT_" \o alias \o " ON DC_" \o alias
           \o ".card_id = CTT_" \o alias \o ".card_id",
         "JOIN CardTypes AS CT_" \o alias \o " ON CTT_" \o alias
           \o ".type_code = CT_" \o alias \o ".type_code">>,
       <<"CT_" \o alias \o ".type_name LIKE ", "?">>,
       <<Like(typeName)>>)

SetcodeJoinLogic(setcode, alias, acc) ==
  Emit(acc,
       <<DeckCardsJoin(alias),
         "JOIN CardToSetcode AS CTS_" \o alias \o " ON DC_" \o alias
           \o ".card_id = CTS_" \o alias \o ".card_id",
         "JOIN Setcodes AS S_" \o alias \o " ON CTS_" \o alias
           \o ".set_code = S_" \o alias \o ".set_code">>,
       <<"S_" \o alias \o ".set_name_cn LIKE ", "?">>,
       <<Like(setcode)>>)

\* the call joinLogic(value, alias) of the callback named joinLogic
ApplyJoinLogic(joinLogic, value, alias, acc) ==
  CASE joinLogic = "race" -> RaceJoinLogic(value, alias, acc)
    [] joinLogic = "attribute" -> AttributeJoinLogic(value, alias, acc)
    [] joinLogic = "type" -> TypeJoinLogic(value, alias, acc)
    [] joinLogic = "setcode" -> SetcodeJoinLogic(value, alias, acc)

\* values.forEach((value, i) => joinLogic(value, alias(i)))
ProcessMultiParamFilter(params, paramName, joinLogic, acc) ==
  LET values == GetAll(params, StrOf(paramName))
      step[i \in 0..Len(values)] ==
        IF i = 0 THEN acc
        ELSE ApplyJoinLogic(joinLogic, values[i], FilterAlias(paramName, i - 1), step[i - 1])
  IN step[Len(values)]

\* if (params.has('deck_name')) ...
DeckNameFilter(params, acc) ==
  IF Has(params, "deck_name")
  THEN Emit(acc, <<>>, <<"D.deck_name LIKE ", "?">>, <<Like(Get(params, "deck_name"))>>)
  ELSE acc

\* string.split(',')
RECURSIVE SplitComma(_, _)
SplitComma(s, cur) ==
  IF s = <<>> THEN <<cur>>
  ELSE IF Head(s) = "," THEN <<cur>> \o SplitComma(Tail(s), <<>>)
  ELSE SplitComma(Tail(s), Append(cur, Head(s)))

AllowedLangs == <<"cn", "en", "jp">>

\* (params.get('lang') || 'cn').split(',').map(l => l.trim())
\*    .filter(l => ['cn', 'en', 'jp'].includes(l))
RECURSIVE FilterLangs(_)
FilterLangs(items) ==
  IF items = <<>> THEN <<>>
  ELSE LET l == StrOf(Trim(Head(items)))
       IN IF \E k \in 1..Len(AllowedLangs) : AllowedLangs[k] = l
          THEN <<l>> \o FilterLangs(Tail(items))
          ELSE FilterLangs(Tail(items))

Langs(params) ==
  LET raw == Get(params, "lang")
      text == IF raw = Null \/ raw = <<>> THEN <<"c", "n">> ELSE raw
  IN FilterLangs(SplitComma(text, <<>>))

\* the body of cardQueries.forEach for one occurrence
CardJoinLogic(cardQuery, i, langs, acc) ==
  LET alias == CardAlias(i)
      langConditions == [k \in 1..Len(langs) |->
                           <<"C_" \o alias \o "." \o langs[k] \o "_name LIKE ", "?">>]
      allConditions ==
        JoinPieces(Append(langConditions, <<"C_" \o alias \o ".card_text_desc LIKE ", "?">>),
                   " OR ")
  IN Emit(acc,
          <<DeckCardsJoin(alias),
            "JOIN Cards AS C_" \o alias \o " ON DC_" \o alias \o ".card_id = C_"
              \o alias \o ".id">>,
          <<"(">> \o allConditions \o <<")">>,
          [k \in 1..Len(langs) |-> Like(cardQuery)] \o <<Like(cardQuery)>>)

\* a card filter without the guard on langs.length
CardFilterWithoutLangGuard(params, acc) ==
  LET cardQueries == GetAll(params, "card")
      langs == Langs(params)
      step[i \in 0..Len(cardQueries)] ==
        IF i = 0 THEN acc ELSE CardJoinLogic(cardQueries[i], i - 1, langs, step[i - 1])
  IN step[Len(cardQueries)]

\* if (cardQueries.length > 0) { langs = ...; if (langs.length > 0) forEach ... }
CardFilter(params, acc) ==
  LET cardQueries == GetAll(params, "card")
      langs == Langs(params)
      step[i \in 0..Len(cardQueries)] ==
        IF i = 0 THEN acc ELSE CardJoinLogic(cardQueries[i], i - 1, langs, step[i - 1])
  IN IF Len(cardQueries) > 0 /\ Len(langs) > 0 THEN step[Len(cardQueries)] ELSE acc

\* if (params.has(key)) { conditions.push(...); bindings.push(parseInt(params.get(key), 10)) }
LikesFilter(params, key, column, acc) ==
  IF Has(params, key)
  THEN Emit(acc, <<>>, <<column, "?">>, <<ParseInt(Get(params, key))>>)
  ELSE acc

\* ... bindings.push(Math.floor(Date.parse(params.get(key)) / 1000))
DateFilter(params, key, column, acc) ==
  IF Has(params, key)
  THEN Emit(acc, <<>>, <<column, "?">>, <<FloorDiv1000(DateParse(Get(params, key)))>>)
  ELSE acc

\* the accumulators once every filter has run, in the order of the source
Filters(params) ==
  LET a1 == DeckNameFilter(params, EmptyAcc)
      a2 == CardFilter(params, a1)
      a3 == ProcessMultiParamFilter(params, <<"r", "a", "c", "e">>, "race", a2)
      a4 == ProcessMultiParamFilter(params, <<"a", "t", "t", "r", "i", "b", "u", "t", "e">>,
                                    "attribute", a3)
      a5 == ProcessMultiParamFilter(params, <<"t", "y", "p", "e">>, "type", a4)
      a6 == ProcessMultiParamFilter(params, <<"s", "e", "t", "c", "o", "d", "e">>,
                                    "setcode", a5)
      a7 == LikesFilter(params, "likes_ge", "D.deck_like >= ", a6)
      a8 == LikesFilter(params, "likes_le", "D.deck_like <= ", a7)
      a9 == DateFilter(params, "after_date", "D.upload_date >= ", a8)
  IN DateFilter(params, "before_date", "D.upload_date <= ", a9)

\* const { limit = 10, offset = 0, reverse = false } = options
OptionOr(options, field, default) ==
  IF field \in DOMAIN options THEN options[field] ELSE default

NoOptions == [f \in {} |-> 0]

BaseSelect(isCountQuery) ==
  IF isCountQuery THEN "SELECT COUNT(DISTINCT D.deck_id) FROM Decks AS D"
  ELSE "SELECT DISTINCT D.* FROM Decks AS D"

OrderDirection(reverse) == IF reverse THEN "ASC" ELSE "DESC"

\* params.get('order') || 'rate'
SortBy(params) ==
  LET raw == Get(params, "order")
  IN IF raw = Null \/ raw = <<>> THEN <<"r", "a", "t", "e">> ELSE raw

\* an ORDER BY whose tie-break key ignores the reversal flag
OrderByClauseTieBreakDesc(params, reverse) ==
  LET orderDirection == OrderDirection(reverse)
  IN IF SortBy(params) = <<"d", "a", "t", "e">>
     THEN <<" ORDER BY ", "D.update_date", " ", orderDirection, ", ",
            "D.deck_like", " ", "DESC">>
     ELSE <<" ORDER BY ", "D.deck_like", " ", orderDirection, ", ",
            "D.update_date", " ", "DESC">>

OrderByClause(params, reverse) ==
  LET orderDirection == OrderDirection(reverse)
  IN IF SortBy(params) = <<"d", "a", "t", "e">>
     THEN <<" ORDER BY ", "D.update_date", " ", orderDirection, ", ",
            "D.deck_like", " ", orderDirection>>
     ELSE <<" ORDER BY ", "D.deck_like", " ", orderDirection, ", ",
            "D.update_date", " ", orderDirection>>

\* sql = baseSelect [+ " " + joins.join(" ")] [+ " WHERE " + conditions.join(" AND ")]
StatementText(isCountQuery, acc) ==
  LET select == <<BaseSelect(isCountQuery)>>
      withJoins == IF Len(acc.joins) > 0
                   THEN select \o <<" ">>
                          \o JoinPieces([i \in 1..Len(acc.joins) |-> <<acc.joins[i]>>], " ")
                   ELSE select
  IN IF Len(acc.conditions) > 0
     THEN withJoins \o <<" WHERE ">> \o JoinPieces(acc.conditions, " AND ")
     ELSE withJoins

\* a compiler whose count mode loses the join fragments
BuildSearchQueryCountDropsJoins(params, isCountQuery, options) ==
  LET limit == OptionOr(options, "limit", 10)
      offset == OptionOr(options, "offset", 0)
      reverse == OptionOr(options, "reverse", FALSE)
      acc == Filters(params)
  IN IF ~isCountQuery
     THEN [sql |-> StatementText(isCountQuery, acc) \o OrderByClause(params, reverse)
                     \o <<" LIMIT ", "?", " OFFSET ", "?">>,
           params |-> acc.bindings \o <<Num(limit), Num(offset)>>]
     ELSE [sql |-> StatementText(isCountQuery, [acc EXCEPT !.joins = <<>>]),
           params |-> acc.bindings]

BuildSearchQuery(params, isCountQuery, options) ==
  LET limit == OptionOr(options, "limit", 10)
      offset == OptionOr(options, "offset", 0)
      reverse == OptionOr(options, "reverse", FALSE)
      acc == Filters(params)
      text == StatementText(isCountQuery, acc)
  IN IF ~isCountQuery
     THEN [sql |-> text \o OrderByClause(params, reverse)
                     \o <<" LIMIT ", "?", " OFFSET ", "?">>,
           params |-> acc.bindings \o <<Num(limit), Num(offset)>>]
     ELSE [sql |-> text, params |-> acc.bindings]

-----------------------------------------------------------------------------
(* handleSearchRequest.  The response messages are Chinese in the source;  *)
(* the model names each by an ASCII rendering.                             *)

\* JsonResponse(data, status = 200)
JsonResponse(data, status) == [status |-> status, body |-> data]

Failure(error) == [success |-> FALSE, error |-> error]

MsgInvalidStart == "invalid 'start': must be a non-negative integer"
MsgInvalidEnd == "invalid 'end': must be an integer greater than 'start'"
MsgInvalidSize == "invalid 'size': must be a positive integer"
MsgBatchFailed == "database query failed"
MsgInternalPrefix == "internal server error: "

\* the pagination block: either the 400 response it returns, or limit and offset
ResolvePagination(searchParams) ==
  LET startParam == Get(searchParams, "start")
      endParam == Get(searchParams, "end")
      sizeParam == Get(searchParams, "size")
      start == ParseInt(startParam)
      end == ParseInt(endParam)
      size == ParseInt(sizeParam)
      Reject(msg) == [valid |-> FALSE, error |-> msg, limit |-> 10, offset |-> 0]
      Accept(l, o) == [valid |-> TRUE, error |-> "", limit |-> l, offset |-> o]
  IN IF startParam # Null
     THEN IF IsNaN(start) \/ start.n < 0 THEN Reject(MsgInvalidStart)
          ELSE IF endParam # Null
               THEN IF IsNaN(end) \/ end.n <= start.n THEN Reject(MsgInvalidEnd)
                    ELSE Accept(end.n - start.n, start.n)
               ELSE IF sizeParam # Null
                    THEN IF IsNaN(size) \/ size.n <= 0 THEN Reject(MsgInvalidSize)
                         ELSE Accept(size.n, start.n)
                    ELSE Accept(10, start.n)
     ELSE Accept(10, 0)

\* searchParams.get('reverse') === 'true'
Reverse(searchParams) == Get(searchParams, "reverse") = <<"t", "r", "u", "e">>

NoQuery == [sql |-> <<>>, params |-> <<>>]

\* a handler that sends the two statements in two batch calls
HandleSearchRequestTwoRoundTrips ==
  /\ pc = "idle"
  /\ LET searchParams == request
         page == ResolvePagination(searchParams)
         options == [limit |-> page.limit, offset |-> page.offset,
                     reverse |-> Reverse(searchParams)]
         q == BuildSearchQuery(searchParams, FALSE, options)
         c == BuildSearchQuery(searchParams, TRUE, NoOptions)
     IN IF ~page.valid
        THEN /\ responses' = Append(responses, JsonResponse(Failure(<<page.error>>), 400))
             /\ pc' = "done"
             /\ UNCHANGED <<query, countQuery, queryOptions, prepared, batches>>
        ELSE /\ queryOptions' = options
             /\ query' = q
             /\ countQuery' = c
             /\ prepared' = prepared \o <<q.sql, c.sql>>
             /\ batches' = batches \o <<<<q>>, <<c>>>>
             /\ pc' = "awaiting"
             /\ UNCHANGED responses
  /\ UNCHANGED <<request, log>>

\* from the entry of the handler to its first return or to the await of batch
HandleSearchRequest ==
  /\ pc = "idle"
  /\ LET searchParams == request
         page == ResolvePagination(searchParams)
         options == [limit |-> page.limit, offset |-> page.offset,
                     reverse |-> Reverse(searchParams)]
         q == BuildSearchQuery(searchParams, FALSE, options)
         c == BuildSearchQuery(searchParams, TRUE, NoOptions)
     IN IF ~page.valid
        THEN /\ responses' = Append(responses, JsonResponse(Failure(<<page.error>>), 400))
             /\ pc' = "done"
             /\ UNCHANGED <<query, countQuery, queryOptions, prepared, batches>>
        ELSE /\ queryOptions' = options
             /\ query' = q
             /\ countQuery' = c
             /\ prepared' = prepared \o <<q.sql, c.sql>>
             /\ batches' = Append(batches, <<q, c>>)
             /\ pc' = "awaiting"
             /\ UNCHANGED responses
  /\ UNCHANGED <<request, log>>

\* what the storage engine can answer for one statement of a batch
DriverErrors == {"D1_ERROR: no such table: Decks"}
Rows == {<<>>, <<"deck">>}
DataResults ==
  {[success |-> TRUE, error |-> "", results |-> r] : r \in Rows}
    \cup {[success |-> FALSE, error |-> e, results |-> <<>>] : e \in DriverErrors}
CountResults ==
  {[success |-> TRUE, error |-> "", results |-> <<n>>] : n \in {0, 1}}
    \cup {[success |-> FALSE, error |-> e, results |-> <<>>] : e \in DriverErrors}

\* the batch promise fulfils with [dataResult, countResult]
BatchResolves(dataResult, countResult) ==
  /\ pc = "awaiting"
  /\ IF ~dataResult.success \/ ~countResult.success
     THEN /\ log' = Append(log, [message |-> "batch failed",
                                 dataError |-> dataResult.error,
                                 countError |-> countResult.error])
          /\ responses' = Append(responses, JsonResponse(Failure(<<MsgBatchFailed>>), 500))
     ELSE /\ responses' =
               Append(responses,
                      JsonResponse([success |-> TRUE,
                                    data |-> [total |-> countResult.results[1],
                                              start |-> queryOptions.offset,
                                              size |-> Len(dataResult.results),
                                              list |-> dataResult.results]],
                                   200))
          /\ UNCHANGED log
  /\ pc' = "done"
  /\ UNCHANGED <<request, query, countQuery, queryOptions, prepared, batches>>

\* the batch promise rejects with an error whose message is e: the catch block
BatchRejects(e) ==
  /\ pc = "awaiting"
  /\ log' = Append(log, [message |-> "exception", dataError |-> e, countError |-> ""])
  /\ responses' = Append(responses, JsonResponse(Failure(<<MsgInternalPrefix, e>>), 500))
  /\ pc' = "done"
  /\ UNCHANGED <<request, query, countQuery, queryOptions, prepared, batches>>

-----------------------------------------------------------------------------
(* The requests of the model.  The source reads searchParams only through  *)
(* get, getAll and has, so only the order of the values of one key matters *)
(* and the requests are taken with their keys in a fixed order.            *)

MaxParams == 3

\* the keys the compiler reads
CompilerKeys == <<"deck_name", "card", "lang", "race", "attribute", "type", "setcode",
                  "likes_ge", "likes_le", "after_date", "before_date", "order">>

\* the keys of the requests of the handler: pagination, sorting, and the range
\* filters and one join filter among the compiler's
HandlerKeys == <<"race", "likes_ge", "likes_le", "after_date", "before_date", "order",
                 "reverse", "start", "end", "size">>

ValuesOf(key) ==
  CASE key = "deck_name" -> {<<"t">>}
    [] key = "card" -> {<<"a">>, <<"b">>}
    [] key = "lang" -> {<<"e", "n", ",", "j", "p">>, <<"x", "x">>,
                        <<" ", "c", "n", " ", ",", "z", "z">>}
    [] key = "race" -> {<<"w">>, <<"d">>}
    [] key = "attribute" -> {<<"l">>}
    [] key = "type" -> {<<"m">>}
    [] key = "setcode" -> {<<"h">>}
    [] key = "likes_ge" -> {<<"5">>, <<"a", "b", "c">>}
    [] key = "likes_le" -> {<<"7">>, <<>>}
    [] key = "after_date" -> {<<"1", "9", "7", "0", "-", "0", "1", "-", "0", "2">>,
                              <<"b", "a", "d">>}
    [] key = "before_date" -> {<<"1", "9", "7", "0", "-", "0", "1", "-", "0", "9">>,
                               <<"s", "o", "o", "n">>}
    [] key = "order" -> {<<"d", "a", "t", "e">>, <<"r", "a", "t", "e">>}
    [] key = "reverse" -> {<<"t", "r", "u", "e">>, <<"1">>}
    [] key = "start" -> {<<"1", "0">>, <<"0">>, <<"-", "1">>, <<"a", "b", "c">>}
    [] key = "end" -> {<<"3", "0">>, <<"1", "0">>, <<"x">>}
    [] key = "size" -> {<<"2", "0">>, <<"0">>, <<"a", "b", "c">>}

\* the parameters a request can carry: <<index of the key in keys, value>>
ParamChoices(keys) ==
  UNION {{<<j, v>> : v \in ValuesOf(keys[j])} : j \in 1..Len(keys)}

\* the lists of n parameters whose keys follow the order of keys
OrderedChoices(keys, n) ==
  {f \in [1..n -> ParamChoices(keys)] : \A i \in 1..(n - 1) : f[i][1] <= f[i + 1][1]}

\* the request made of a list of parameter choices
RequestOf(keys, f) == [i \in 1..Len(f) |-> <<keys[f[i][1]], f[i][2]>>]

-----------------------------------------------------------------------------
(* Specification of the handler: one request, from its arrival to its response *)

Init ==
  /\ pc = "idle"
  /\ \E n \in 0..MaxParams : \E f \in OrderedChoices(HandlerKeys, n) :
       request = RequestOf(HandlerKeys, f)
  /\ query = NoQuery
  /\ countQuery = NoQuery
  /\ queryOptions = NoOptions
  /\ prepared = <<>>
  /\ batches = <<>>
  /\ responses = <<>>
  /\ log = <<>>

Next ==
  \/ HandleSearchRequest
  \/ \E dataResult \in DataResults, countResult \in CountResults :
       BatchResolves(dataResult, countResult)
  \/ \E e \in DriverErrors : BatchRejects(e)

Spec == Init /\ [][Next]_vars

-----------------------------------------------------------------------------
(* Specification of the compiler alone: buildSearchQuery applied to a      *)
(* parameter set in both modes, the data mode under any options object     *)

OptionObjects ==
  {NoOptions,
   [reverse |-> TRUE],
   [limit |-> 1, offset |-> 0, reverse |-> FALSE],
   [limit |-> 20, offset |-> 10, reverse |-> TRUE]}

CompilerInit ==
  /\ pc = "idle"
  /\ \E n \in 0..MaxParams : \E f \in OrderedChoices(CompilerKeys, n) :
       request = RequestOf(CompilerKeys, f)
  /\ queryOptions \in OptionObjects
  /\ query = NoQuery
  /\ countQuery = NoQuery
  /\ prepared = <<>>
  /\ batches = <<>>
  /\ responses = <<>>
  /\ log = <<>>

\* buildSearchQuery(params, false, options) and buildSearchQuery(params, true)
CallBuildSearchQuery ==
  /\ pc = "idle"
  /\ query' = BuildSearchQuery(request, FALSE, queryOptions)
  /\ countQuery' = BuildSearchQuery(request, TRUE, NoOptions)
  /\ pc' = "compiled"
  /\ UNCHANGED <<request, queryOptions, prepared, batches, responses, log>>

CompilerNext == CallBuildSearchQuery

CompilerSpec == CompilerInit /\ [][CompilerNext]_vars

-----------------------------------------------------------------------------
(* Reading a statement: the pieces of its text by clause *)

IndexOf(seq, x) ==
  IF \E i \in 1..Len(seq) : seq[i] = x
  THEN CHOOSE i \in 1..Len(seq) : seq[i] = x /\ \A j \in 1..(i - 1) : seq[j] # x
  ELSE 0

Pieces(sql) == {sql[i] : i \in 1..Len(sql)}

\* where the clause that starts with piece `start` begins, or one past the end
ClauseStart(sql, start) == IF IndexOf(sql, start) = 0 THEN Len(sql) + 1 ELSE IndexOf(sql, start)

NotBlank(piece) == piece # " "

\* the JOIN fragments of a statement, in text order
JoinsIn(sql) ==
  LET stop == IF ClauseStart(sql, " WHERE ") <= Len(sql) THEN ClauseStart(sql, " WHERE ")
              ELSE ClauseStart(sql, " ORDER BY ")
  IN SelectSeq(SubSeq(sql, 2, stop - 1), NotBlank)

\* the pieces of the WHERE clause after the keyword
WhereIn(sql) ==
  SubSeq(sql, ClauseStart(sql, " WHERE ") + 1, ClauseStart(sql, " ORDER BY ") - 1)

\* the pieces from ORDER BY to the end
OrderAndPageIn(sql) == SubSeq(sql, ClauseStart(sql, " ORDER BY "), Len(sql))

\* for every placeholder in text order, the piece in front of it
RECURSIVE LabelsOf(_)
LabelsOf(sql) ==
  IF Len(sql) < 2 THEN <<>>
  ELSE IF sql[2] = "?" THEN <<sql[1]>> \o LabelsOf(Tail(sql))
  ELSE LabelsOf(Tail(sql))

\* the pieces of a clause that are outside every pair of parentheses
RECURSIVE TopLevel(_, _)
TopLevel(pieces, depth) ==
  IF pieces = <<>> THEN <<>>
  ELSE IF Head(pieces) = "(" THEN TopLevel(Tail(pieces), depth + 1)
  ELSE IF Head(pieces) = ")" THEN TopLevel(Tail(pieces), depth - 1)
  ELSE IF depth = 0 THEN <<Head(pieces)>> \o TopLevel(Tail(pieces), depth)
  ELSE TopLevel(Tail(pieces), depth)

CountOf(seq, x) == Cardinality({i \in 1..Len(seq) : seq[i] = x})

Occurrences(params, key) == Len(GetAll(params, key))

Present(params, key) == IF Has(params, key) THEN 1 ELSE 0

Compiled == pc = "compiled"

\* the limit and the offset an options object stands for
LimitOf(options) == IF "limit" \in DOMAIN options THEN options.limit ELSE 10
OffsetOf(options) == IF "offset" \in DOMAIN options THEN options.offset ELSE 0

-----------------------------------------------------------------------------
(* C1: for every parameter set and every options object, the data          *)
(* statement and the count statement have the same sequence of JOIN        *)
(* fragments and the same WHERE clause; they differ only in the projection *)
(* and in the trailing ORDER BY / LIMIT / OFFSET of the data statement,    *)
(* whose bound values are the count statement's followed by limit, offset. *)
C1_DataAndCountAgree ==
  Compiled =>
    /\ JoinsIn(query.sql) = JoinsIn(countQuery.sql)
    /\ WhereIn(query.sql) = WhereIn(countQuery.sql)
    /\ query.sql[1] = "SELECT DISTINCT D.* FROM Decks AS D"
    /\ countQuery.sql[1] = "SELECT COUNT(DISTINCT D.deck_id) FROM Decks AS D"
    /\ Tail(countQuery.sql) = SubSeq(query.sql, 2, Len(countQuery.sql))
    /\ SubSeq(query.sql, Len(countQuery.sql) + 1, Len(query.sql)) = OrderAndPageIn(query.sql)
    /\ OrderAndPageIn(query.sql)[1] = " ORDER BY "
    /\ SubSeq(query.sql, Len(query.sql) - 3, Len(query.sql)) = <<" LIMIT ", "?", " OFFSET ", "?">>
    /\ query.params =
         countQuery.params \o <<Num(LimitOf(queryOptions)), Num(OffsetOf(queryOptions))>>

C1_Witness ==
  /\ Compiled
  /\ Len(JoinsIn(countQuery.sql)) >= 5
  /\ Len(WhereIn(countQuery.sql)) >= 6
  /\ Has(request, "after_date")
  /\ "limit" \in DOMAIN queryOptions /\ queryOptions.limit = 20

-----------------------------------------------------------------------------
(* What each placeholder of a statement compiled from `params` stands for: *)
(* <<the piece in front of the placeholder, its rank in the fixed order of *)
(* the filters, the value bound to it>>                                    *)

CategoricalFilters ==
  {<<"race", "R_", ".race_name LIKE ", 3>>,
   <<"attribute", "A_", ".attribute_name LIKE ", 4>>,
   <<"type", "CT_", ".type_name LIKE ", 5>>,
   <<"setcode", "S_", ".set_name_cn LIKE ", 6>>}

LangColumns == <<"cn", "en", "jp">>

ExpectedPlaceholders(params, options, isCountQuery) ==
  LET cards == GetAll(params, "card")
  IN (IF Has(params, "deck_name")
      THEN {<<"D.deck_name LIKE ", 1000, Like(Get(params, "deck_name"))>>} ELSE {})
     \cup {<<"C_card" \o ToString(j) \o "." \o LangColumns[l] \o "_name LIKE ",
             2000 + 10 * j + l, Like(cards[j + 1])>>
           : j \in 0..(Len(cards) - 1), l \in 1..3}
     \cup {<<"C_card" \o ToString(j) \o ".card_text_desc LIKE ",
             2000 + 10 * j + 9, Like(cards[j + 1])>>
           : j \in 0..(Len(cards) - 1)}
     \cup UNION {{<<c[2] \o c[1] \o ToString(j) \o c[3], 1000 * c[4] + j,
                    Like(GetAll(params, c[1])[j + 1])>>
                  : j \in 0..(Occurrences(params, c[1]) - 1)}
                 : c \in CategoricalFilters}
     \cup (IF Has(params, "likes_ge")
           THEN {<<"D.deck_like >= ", 7000, ParseInt(Get(params, "likes_ge"))>>} ELSE {})
     \cup (IF Has(params, "likes_le")
           THEN {<<"D.deck_like <= ", 8000, ParseInt(Get(params, "likes_le"))>>} ELSE {})
     \cup (IF Has(params, "after_date")
           THEN {<<"D.upload_date >= ", 9000,
                   FloorDiv1000(DateParse(Get(params, "after_date")))>>} ELSE {})
     \cup (IF Has(params, "before_date")
           THEN {<<"D.upload_date <= ", 10000,
                   FloorDiv1000(DateParse(Get(params, "before_date")))>>} ELSE {})
     \cup (IF isCountQuery THEN {}
           ELSE {<<" LIMIT ", 11000, Num(LimitOf(options))>>,
                 <<" OFFSET ", 12000, Num(OffsetOf(options))>>})

\* the placeholders of statement stmt are bound, in text order, to its values
PlaceholdersBound(stmt, expected) ==
  LET labels == LabelsOf(stmt.sql)
      Entry(k) == CHOOSE e \in expected : e[1] = labels[k]
  IN /\ CountOf(stmt.sql, "?") = Len(stmt.params)
     /\ Len(labels) = Len(stmt.params)
     /\ \A k \in 1..Len(labels) :
          /\ \E e \in expected : e[1] = labels[k]
          /\ Entry(k)[3] = stmt.params[k]
     /\ \A k \in 1..(Len(labels) - 1) : Entry(k)[2] < Entry(k + 1)[2]

(* C10: in both modes the number of placeholders of the statement equals   *)
(* the number of bound values, the i-th value belongs to the i-th          *)
(* placeholder, and conditions and values follow the fixed order           *)
(* deck_name, card occurrences (name columns, then description), race,     *)
(* attribute, type, setcode, likes_ge, likes_le, after_date, before_date,  *)
(* then limit and offset in data mode only.                                *)
C10_PlaceholdersMatchBindings ==
  Compiled =>
    /\ PlaceholdersBound(query, ExpectedPlaceholders(request, queryOptions, FALSE))
    /\ PlaceholdersBound(countQuery, ExpectedPlaceholders(request, NoOptions, TRUE))
    /\ Len(query.params) = Len(countQuery.params) + 2

C10_Witness ==
  /\ Compiled
  /\ Occurrences(request, "card") = 2
  /\ GetAll(request, "card")[1] # GetAll(request, "card")[2]
  /\ Get(request, "lang") = <<"e", "n", ",", "j", "p">>
  /\ Len(query.params) = 8

-----------------------------------------------------------------------------
(* C4 *)

JoinFilterKeys == {"race", "attribute", "type", "setcode"}

\* the number of card occurrences that introduce joins: all, under a valid lang
CardOccurrences(params) ==
  IF Langs(params) # <<>> THEN Occurrences(params, "card") ELSE 0

CategoricalOccurrences(params) ==
  Occurrences(params, "race") + Occurrences(params, "attribute")
    + Occurrences(params, "type") + Occurrences(params, "setcode")

ConditionCount(params) ==
  Present(params, "deck_name") + CardOccurrences(params) + CategoricalOccurrences(params)
    + Present(params, "likes_ge") + Present(params, "likes_le")
    + Present(params, "after_date") + Present(params, "before_date")

\* the aliases of the join-introducing occurrences of a parameter set
AliasesOf(params) ==
  {"card" \o ToString(j) : j \in 0..(CardOccurrences(params) - 1)}
    \cup UNION {{k \o ToString(j) : j \in 0..(Occurrences(params, k) - 1)}
                : k \in JoinFilterKeys}

OwnDeckCardsJoin(alias) ==
  "JOIN DeckCards AS DC_" \o alias \o " ON D.deck_id = DC_" \o alias \o ".deck_id"

AndedUnderOwnAliases(stmt, params) ==
  LET joins == JoinsIn(stmt.sql)
      where == WhereIn(stmt.sql)
      top == TopLevel(where, 0)
      cards == CardOccurrences(params)
      categorical == CategoricalOccurrences(params)
      conditions == ConditionCount(params)
      aliases == AliasesOf(params)
  IN /\ Len(joins) = 2 * cards + 3 * categorical
     /\ \A i, j \in 1..Len(joins) : i # j => joins[i] # joins[j]
     /\ Cardinality(aliases) = cards + categorical
     /\ \A a \in aliases : CountOf(joins, OwnDeckCardsJoin(a)) = 1
     /\ CountOf(top, " OR ") = 0
     /\ CountOf(top, "?") + CountOf(where, "(") = conditions
     /\ conditions > 0 => CountOf(top, " AND ") = conditions - 1
     /\ \A c \in CategoricalFilters :
          \A j \in 0..(Occurrences(params, c[1]) - 1) :
            CountOf(top, c[2] \o c[1] \o ToString(j) \o c[3]) = 1
     /\ \A j \in 0..(cards - 1) :
          CountOf(where, "C_card" \o ToString(j) \o ".card_text_desc LIKE ") = 1

(* C4: repeating a join-introducing filter key (race, attribute, type,     *)
(* setcode, or card under a valid lang) N times gives N conditions, all    *)
(* joined by AND at the top level of the WHERE clause, each under its own  *)
(* alias; the aliases of one statement are pairwise different across kinds *)
(* and occurrences, no two occurrences share a JOIN fragment, and the join *)
(* set has 2 fragments per card occurrence plus 3 per categorical one.     *)
C4_RepeatsAndedUnderOwnAliases ==
  Compiled => /\ AndedUnderOwnAliases(query, request)
              /\ AndedUnderOwnAliases(countQuery, request)

C4_Witness ==
  /\ Compiled
  /\ Occurrences(request, "race") = 2
  /\ Occurrences(request, "card") = 1
  /\ Len(JoinsIn(query.sql)) = 8
  /\ CountOf(TopLevel(WhereIn(query.sql), 0), " AND ") = 2

-----------------------------------------------------------------------------
(* C9 *)

\* card is present and lang names no language of the allow-list
CardWithoutValidLang == Has(request, "card") /\ Get(request, "lang") = <<"x", "x">>

OtherConditions(params) ==
  Present(params, "deck_name") + CategoricalOccurrences(params)
    + Present(params, "likes_ge") + Present(params, "likes_le")
    + Present(params, "after_date") + Present(params, "before_date")

(* C9 as stated: with card present and lang resolving to no valid language *)
(* the compiler still appends, for each card occurrence, the description   *)
(* condition with its DeckCards/Cards joins and one bound value.           *)
C9_DescriptionConditionAppended ==
  Compiled /\ CardWithoutValidLang =>
    /\ \A j \in 0..(Occurrences(request, "card") - 1) :
         /\ "C_card" \o ToString(j) \o ".card_text_desc LIKE " \in Pieces(countQuery.sql)
         /\ OwnDeckCardsJoin("card" \o ToString(j)) \in Pieces(countQuery.sql)
    /\ Len(countQuery.params) = Occurrences(request, "card") + OtherConditions(request)

(* C9 amended: with card present and lang resolving to no valid language   *)
(* compilation does not fail and the card filter contributes nothing: no   *)
(* condition, no DeckCards/Cards join and no bound value, in either mode.  *)
C9_CardFilterSkipped ==
  Compiled /\ CardWithoutValidLang =>
    /\ \A j \in 0..(Occurrences(request, "card") - 1) :
         \A stmt \in {query, countQuery} :
           /\ "C_card" \o ToString(j) \o ".card_text_desc LIKE " \notin Pieces(stmt.sql)
           /\ OwnDeckCardsJoin("card" \o ToString(j)) \notin Pieces(stmt.sql)
           /\ ("JOIN Cards AS C_card" \o ToString(j) \o " ON DC_card" \o ToString(j)
                 \o ".card_id = C_card" \o ToString(j) \o ".id") \notin Pieces(stmt.sql)
    /\ Len(JoinsIn(countQuery.sql)) = 3 * CategoricalOccurrences(request)
    /\ Len(countQuery.params) = OtherConditions(request)
    /\ Len(query.params) = OtherConditions(request) + 2
    /\ countQuery.sql[1] = "SELECT COUNT(DISTINCT D.deck_id) FROM Decks AS D"

C9_Witness ==
  /\ Compiled
  /\ CardWithoutValidLang
  /\ Occurrences(request, "card") = 2
  /\ Len(countQuery.params) = 0

-----------------------------------------------------------------------------
(* The handler: pagination as the claims word it *)

Handled == pc # "idle"

StartOf(params) == ParseInt(Get(params, "start"))
EndOf(params) == ParseInt(Get(params, "end"))
SizeOf(params) == ParseInt(Get(params, "size"))

\* start when it is present, 0 otherwise
StartOrDefault(params) == IF Has(params, "start") THEN StartOf(params).n ELSE 0

\* `end` present and not greater than `start`, `size` present and not a positive
\* integer, or `start` negative or not numeric
InvalidPagination(params) ==
  \/ Has(params, "start") /\ (IsNaN(StartOf(params)) \/ StartOf(params).n < 0)
  \/ Has(params, "size") /\ (IsNaN(SizeOf(params)) \/ SizeOf(params).n <= 0)
  \/ /\ Has(params, "end") /\ Has(params, "start") /\ ~IsNaN(StartOf(params))
     /\ (IsNaN(EndOf(params)) \/ EndOf(params).n <= StartOf(params).n)

RejectedBeforeStorage ==
  /\ prepared = <<>>
  /\ batches = <<>>
  /\ Len(responses) = 1
  /\ responses[1].status = 400

(* C2 as stated: every request whose pagination is invalid is answered     *)
(* with 400 and makes no call to the storage engine (no prepare, no        *)
(* batch), whichever other parameters accompany the invalid one.           *)
C2_InvalidPaginationRejected ==
  Handled /\ InvalidPagination(request) => RejectedBeforeStorage

ClaimedLimit(params) ==
  IF Has(params, "start") /\ Has(params, "end") THEN EndOf(params).n - StartOf(params).n
  ELSE IF Has(params, "size") THEN SizeOf(params).n
  ELSE 10

(* C3 as stated: for every request that passes validation the last two     *)
(* values bound to the data statement are limit and offset, with           *)
(* offset = start (0 when absent) and limit = end - start when start and   *)
(* end are both present, otherwise size when size is present, otherwise    *)
(* 10; limit >= 1 and offset >= 0 in every statement submitted.            *)
C3_LimitAndOffsetResolved ==
  \A b \in 1..Len(batches) :
    LET data == batches[b][1]
        n == Len(data.params)
    IN /\ n >= 2
       /\ data.params[n - 1].t = "num" /\ data.params[n - 1].n >= 1
       /\ data.params[n].t = "num" /\ data.params[n].n >= 0
       /\ ~InvalidPagination(request) =>
            /\ data.params[n - 1] = Num(ClaimedLimit(request))
            /\ data.params[n] = Num(StartOrDefault(request))

-----------------------------------------------------------------------------
(* C5: every data statement submitted has an ORDER BY of exactly two keys, *)
(* update_date first when order=date and deck_like first otherwise, the    *)
(* other key second, both with the same direction: ASC when reverse is the *)
(* literal string true, DESC otherwise; a count statement carries no       *)
(* ORDER BY, LIMIT or OFFSET.                                              *)
C5_OrderByBothKeysOneDirection ==
  \A b \in 1..Len(batches) :
    LET data == batches[b][1].sql
        count == batches[b][2].sql
        byDate == Get(request, "order") = <<"d", "a", "t", "e">>
        dir == IF Get(request, "reverse") = <<"t", "r", "u", "e">> THEN "ASC" ELSE "DESC"
        primary == IF byDate THEN "D.update_date" ELSE "D.deck_like"
        secondary == IF byDate THEN "D.deck_like" ELSE "D.update_date"
    IN /\ OrderAndPageIn(data) =
            <<" ORDER BY ", primary, " ", dir, ", ", secondary, " ", dir,
              " LIMIT ", "?", " OFFSET ", "?">>
       /\ CountOf(data, " ORDER BY ") = 1
       /\ Pieces(count) \cap {" ORDER BY ", " LIMIT ", " OFFSET ", "ASC", "DESC"} = {}

C5_Witness ==
  /\ pc = "awaiting"
  /\ Get(request, "order") = <<"d", "a", "t", "e">>
  /\ Get(request, "reverse") = <<"t", "r", "u", "e">>
  /\ CountOf(batches[1][1].sql, "ASC") = 2
  /\ IndexOf(batches[1][1].sql, "D.update_date") < IndexOf(batches[1][1].sql, "D.deck_like")

-----------------------------------------------------------------------------
(* C6 as stated: whenever the batch fails (a result reports failure, or    *)
(* the call rejects) the handler answers 500 with a generic message, and   *)
(* the driver's error text, which is logged, is not in the response body.  *)
C6_DriverErrorNotInResponse ==
  pc = "done" /\ log # <<>> =>
    /\ Len(responses) = 1
    /\ responses[1].status = 500
    /\ responses[1].body.success = FALSE
    /\ \A i \in 1..Len(responses[1].body.error) :
         responses[1].body.error[i] \notin DriverErrors

-----------------------------------------------------------------------------
(* C7: every request that passes validation issues exactly one batch call, *)
(* made of the data statement and the count statement compiled from the    *)
(* request's parameters; the statements never travel separately, the batch *)
(* is not issued again after a failure, and every request ends with        *)
(* exactly one response (success envelope, 400 or 500).                    *)
C7_OneBatchOneResponse ==
  /\ Len(batches) <= 1
  /\ Len(responses) <= 1
  /\ pc = "idle" => batches = <<>> /\ responses = <<>>
  /\ pc = "awaiting" => Len(batches) = 1 /\ responses = <<>>
  /\ pc = "done" =>
       /\ Len(responses) = 1
       /\ responses[1].status \in {200, 400, 500}
       /\ responses[1].status = 400 <=> batches = <<>>
       /\ responses[1].status = 200 <=> responses[1].body.success
  /\ Handled /\ ResolvePagination(request).valid => Len(batches) = 1
  /\ \A b \in 1..Len(batches) :
       /\ Len(batches[b]) = 2
       /\ batches[b][1] = BuildSearchQuery(request, FALSE, queryOptions)
       /\ batches[b][2] = BuildSearchQuery(request, TRUE, NoOptions)
       /\ batches[b][1].sql[1] = "SELECT DISTINCT D.* FROM Decks AS D"
       /\ batches[b][2].sql[1] = "SELECT COUNT(DISTINCT D.deck_id) FROM Decks AS D"
       /\ prepared = <<batches[b][1].sql, batches[b][2].sql>>

C7_Witness ==
  /\ pc = "done"
  /\ log # <<>>
  /\ responses[1].status = 500
  /\ Len(batches) = 1
  /\ Has(request, "start")

-----------------------------------------------------------------------------
MalformedRange(params) ==
  \/ \E k \in {"likes_ge", "likes_le"} : Has(params, k) /\ IsNaN(ParseInt(Get(params, k)))
  \/ \E k \in {"after_date", "before_date"} :
       Has(params, k) /\ IsNaN(DateParse(Get(params, k)))

(* C8 as stated: a request whose range filter is malformed (likes_ge or    *)
(* likes_le not an integer, after_date or before_date not a calendar date) *)
(* is answered with 400 before any storage call, and no statement with a   *)
(* non-numeric value bound to a range filter is submitted.                 *)
C8_MalformedRangeRejected ==
  /\ Handled /\ MalformedRange(request) => RejectedBeforeStorage
  /\ \A b \in 1..Len(batches) : \A s \in 1..Len(batches[b]) :
       \A v \in 1..Len(batches[b][s].params) : ~IsNaN(batches[b][s].params[v])

====
